---- MODULE Spec2Model ----
(***************************************************************************)
(* Model of the recipe-app-api backend: the user endpoints (create, token, *)
(* me) and the per-user recipe endpoints (tags, ingredients, recipes,      *)
(* recipe image).  A view handles a request in one atomic step on the      *)
(* store and leaves its response in resp; the client takes the response    *)
(* before the next request is sent.                                        *)
(***************************************************************************)
EXTENDS Integers, Sequences, FiniteSets, TLC

VARIABLES
    users,      \* the user table: a sequence of rows, a user's id is its index
    tokens,     \* the authtoken table: the ids of the users that hold a token
    attrs,      \* the Tag and the Ingredient tables: per kind a sequence of rows
    recipes,    \* the Recipe table: id -> row, with its two many-to-many sets
    nextRecipe, \* the Recipe table's auto-increment primary key
    resp        \* the response on its way to the client, with the request it answers

vars == <<users, tokens, attrs, recipes, nextRecipe, resp>>

(* ------------------------------ bounds -------------------------------- *)

\* Users that may register under SpecUser.
MaxUsers == 2
\* Tags, ingredients and recipes created in all, under Spec.
MaxEntities == 3

(* ----------------------------- constants ------------------------------ *)

HTTP_200_OK == 200
HTTP_201_CREATED == 201
HTTP_204_NO_CONTENT == 204
HTTP_400_BAD_REQUEST == 400
HTTP_401_UNAUTHORIZED == 401
HTTP_404_NOT_FOUND == 404
HTTP_405_METHOD_NOT_ALLOWED == 405
HTTP_500_INTERNAL_SERVER_ERROR == 500

\* The serializer's minimum password length.
MinPasswordLength == 5

\* request.user of a request without valid credentials (AnonymousUser).
Anonymous == 0

Kinds == {"tag", "ingredient"}

(* ------------------------------ helpers ------------------------------- *)

Range(s) == {s[i] : i \in DOMAIN s}

\* All orderings of a finite set, as sequences.
RECURSIVE Perms(_)
Perms(S) ==
    IF S = {} THEN {<<>>}
    ELSE UNION {{<<x>> \o p : p \in Perms(S \ {x})} : x \in S}

(* ---------------------------- user store ------------------------------ *)

\* An email is its sequence of characters.
LowerChar(c) ==
    CASE c = "A" -> "a"
      [] c = "B" -> "b"
      [] c = "X" -> "x"
      [] OTHER -> c

\* str.lower() on an email.
normalize_email(email) == [i \in DOMAIN email |-> LowerChar(email[i])]

Emails == { <<>>,
            <<"a", "@", "x">>,
            <<"A", "@", "X">>,
            <<"b", "@", "x">> }

Passwords == {"", "pass", "testpass123", "wrongpass123"}

UserNames == {"", "ann"}

\* The one-way hash the store keeps instead of the password.
make_password(password) == <<"pbkdf2", password>>

check_password(password, hashed) == make_password(password) = hashed

UserIds == DOMAIN users

UserByEmail(email) == {u \in UserIds : users[u].email = email}

\* The profile a user response carries: no password.
UserData(row) == [email |-> row.email, name |-> row.name]

NoQuery == [assigned_only |-> FALSE,
            tags |-> [given |-> FALSE, parts |-> <<>>],
            ingredients |-> [given |-> FALSE, parts |-> <<>>]]

\* A handled request (its view, request.user, the url's kind and pk, its query
\* parameters, what the claims read of its payload) and the response (status, data).
Response(op, user, kind, pk, q, payload, status, data) ==
    [op |-> op, user |-> user, kind |-> kind, pk |-> pk, q |-> q,
     payload |-> payload, status |-> status, data |-> data]

NoData == [detail |-> "none"]

\* No response is on its way.
NoResponse == Response("none", 0, "", 0, NoQuery, NoData, 0, NoData)

\* TokenAuthentication: the key of user u's token is u; any other key is no one's.
Keys == 0 .. 2

Authenticate(key) == IF key \in tokens THEN key ELSE Anonymous

\* A view without the permission class: every request passes.
IsAuthenticatedMutant(user) == TRUE

\* permission_classes = (IsAuthenticated,)
IsAuthenticated(user) == user # Anonymous

\* A serializer without the uniqueness check on the email.
UserErrorsMutant(payload) ==
    (IF payload.email = <<>> THEN {"email"} ELSE {})
    \cup (IF Len(payload.password) < MinPasswordLength THEN {"password"} ELSE {})

\* The create-user serializer's field errors.
UserErrors(payload) ==
    (IF payload.email = <<>> \/ UserByEmail(normalize_email(payload.email)) # {}
     THEN {"email"} ELSE {})
    \cup (IF Len(payload.password) < MinPasswordLength THEN {"password"} ELSE {})

\* POST /user/create
CreateUser ==
    /\ resp = NoResponse
    /\ Len(users) < MaxUsers
    /\ \E email \in Emails, password \in Passwords, name \in UserNames :
        LET payload == [email |-> email, password |-> password, name |-> name]
            row == [email |-> normalize_email(email),
                    password |-> make_password(password),
                    name |-> name]
        IN  IF UserErrors(payload) # {}
            THEN /\ resp' = Response("user_create", Anonymous, "", 0, NoQuery,
                                     payload, HTTP_400_BAD_REQUEST,
                                     [errors |-> UserErrors(payload)])
                 /\ UNCHANGED users
            ELSE /\ users' = Append(users, row)
                 /\ resp' = Response("user_create", Anonymous, "", 0, NoQuery,
                                     payload, HTTP_201_CREATED, UserData(row))
    /\ UNCHANGED <<tokens, attrs, recipes, nextRecipe>>

\* An authenticate that looks the user up and skips the password check.
VerifyCredentialsMutant(email, password) ==
    IF email = <<>> \/ password = "" THEN {}
    ELSE UserByEmail(email)

\* authenticate(username=email, password=password): the users it accepts.
VerifyCredentials(email, password) ==
    IF email = <<>> \/ password = "" THEN {}
    ELSE {u \in UserByEmail(email) : check_password(password, users[u].password)}

\* POST /user/token
GenerateToken ==
    /\ resp = NoResponse
    /\ \E email \in Emails, password \in Passwords :
        LET found == VerifyCredentials(email, password)
            payload == [email |-> email, password |-> password]
        IN  IF found = {}
            THEN /\ resp' = Response("token", Anonymous, "", 0, NoQuery,
                                     payload, HTTP_400_BAD_REQUEST,
                                     [non_field_errors |-> "invalid credentials"])
                 /\ UNCHANGED tokens
            ELSE \E u \in found :
                 /\ tokens' = tokens \cup {u}
                 /\ resp' = Response("token", Anonymous, "", 0, NoQuery,
                                     payload, HTTP_200_OK, [token |-> u])
    /\ UNCHANGED <<users, attrs, recipes, nextRecipe>>

\* The partial updates of a profile SpecUser tries, and those Spec tries: under
\* Spec a PATCH sends the name the user already has or a password too short, so
\* the user table keeps its initial value there.
MePayloads == { [name |-> "ann"], [password |-> "pass"], [password |-> "wrongpass123"] }

MePayloadsPrivate == { [name |-> "ann"], [password |-> "pass"] }

\* The profile serializer's field errors on a partial update.
ProfileErrors(payload) ==
    IF "password" \in DOMAIN payload /\ Len(payload.password) < MinPasswordLength
    THEN {"password"} ELSE {}

\* The user row after a partial update: the password is hashed again.
UpdateProfile(row, payload) ==
    [email |-> row.email,
     password |-> IF "password" \in DOMAIN payload
                  THEN make_password(payload.password) ELSE row.password,
     name |-> IF "name" \in DOMAIN payload THEN payload.name ELSE row.name]

\* The row of request.user; AnonymousUser has neither email nor name.
UserRow(user) ==
    IF user \in UserIds THEN users[user]
    ELSE [email |-> <<>>, password |-> <<>>, name |-> ""]

\* GET, PATCH, POST /user/me, with the payloads a PATCH is tried with
ManageUser(payloads) ==
    /\ resp = NoResponse
    /\ \E key \in Keys :
        LET user == Authenticate(key)
            R(op, p, status, data) == Response(op, user, "", 0, NoQuery, p, status, data)
        IN  IF ~IsAuthenticated(user)
            THEN /\ resp' = R("me", NoData, HTTP_401_UNAUTHORIZED, NoData)
                 /\ UNCHANGED users
            ELSE \E method \in {"GET", "PATCH", "POST"} :
                 IF method = "POST"
                 THEN /\ resp' = R("me_post", NoData, HTTP_405_METHOD_NOT_ALLOWED, NoData)
                      /\ UNCHANGED users
                 ELSE IF method = "GET"
                 THEN /\ resp' = R("me_retrieve", NoData, HTTP_200_OK,
                                   UserData(UserRow(user)))
                      /\ UNCHANGED users
                 ELSE \E payload \in payloads :
                      IF ProfileErrors(payload) # {}
                      THEN /\ resp' = R("me_partial_update", payload,
                                        HTTP_400_BAD_REQUEST,
                                        [errors |-> ProfileErrors(payload)])
                           /\ UNCHANGED users
                      ELSE /\ users' = [u \in UserIds |->
                                          IF u = user THEN UpdateProfile(users[u], payload)
                                          ELSE users[u]]
                           /\ resp' = R("me_partial_update", payload, HTTP_200_OK,
                                        UserData(UpdateProfile(UserRow(user), payload)))
    /\ UNCHANGED <<tokens, attrs, recipes, nextRecipe>>

(* --------------------------- tags, ingredients ------------------------ *)

AttrNames == {"", "Kale", "Salt"}

\* The collation of the names: order_by('-name') sorts on it.
NameRank(name) ==
    CASE name = "" -> 0
      [] name = "Kale" -> 1
      [] name = "Salt" -> 2

AttrIds(kind) == DOMAIN attrs[kind]

RecipeIds == DOMAIN recipes

\* recipe.tags / recipe.ingredients: the ids on the many-to-many table.
RecipeAttrs(recipe, kind) == IF kind = "tag" THEN recipe.tags ELSE recipe.ingredients

\* The rows inserted so far.
Created == Len(attrs["tag"]) + Len(attrs["ingredient"]) + (nextRecipe - 1)

\* TagSerializer / IngredientSerializer: fields ('id', 'name').
AttrData(kind, id) == [id |-> id, name |-> attrs[kind][id].name]

\* BaseRecipeAttrViewSet.get_queryset before the ordering: its rows <<attr, recipe>>.
\* filter(recipe__isnull=False) joins the many-to-many table, one row for each
\* recipe an attribute is on; without it each attribute is one row (recipe 0).
AttrRows(kind, user, assigned_only) ==
    LET queryset ==
            IF assigned_only
            THEN {row \in AttrIds(kind) \X RecipeIds :
                    row[1] \in RecipeAttrs(recipes[row[2]], kind)}
            ELSE {<<a, 0>> : a \in AttrIds(kind)}
    IN  {row \in queryset : attrs[kind][row[1]].user = user}

\* BaseRecipeAttrViewSet.get_queryset: the orders the database may return the
\* rows in under order_by('-name').
AttrQueryset(kind, user, assigned_only) ==
    {s \in Perms(AttrRows(kind, user, assigned_only)) :
        \A i, j \in DOMAIN s :
            i < j => NameRank(attrs[kind][s[i][1]].name)
                        >= NameRank(attrs[kind][s[j][1]].name)}

\* GET /recipe/tags, /recipe/ingredients
AttrList ==
    /\ resp = NoResponse
    /\ \E key \in Keys, kind \in Kinds :
        LET user == Authenticate(key)
            R(q, status, data) == Response("attr_list", user, kind, 0, q,
                                           NoData, status, data)
        IN  IF ~IsAuthenticated(user)
            THEN resp' = R(NoQuery, HTTP_401_UNAUTHORIZED, NoData)
            ELSE \E assigned_only \in BOOLEAN :
                 \E s \in AttrQueryset(kind, user, assigned_only) :
                    resp' = R([NoQuery EXCEPT !.assigned_only = assigned_only],
                              HTTP_200_OK,
                              [i \in DOMAIN s |-> AttrData(kind, s[i][1])])
    /\ UNCHANGED <<users, tokens, attrs, recipes, nextRecipe>>

PayloadUsers == 0 .. 2

\* A perform_create that lets the payload name the owner.
BaseRecipeAttrViewSet_perform_create_Mutant(payload, user) ==
    [user |-> IF payload.user # 0 THEN payload.user ELSE user, name |-> payload.name]

\* BaseRecipeAttrViewSet.perform_create: serializer.save(user=self.request.user);
\* the serializer's fields are id and name, a user in the payload is dropped.
BaseRecipeAttrViewSet_perform_create(payload, user) ==
    [user |-> user, name |-> payload.name]

\* POST /recipe/tags, /recipe/ingredients
AttrCreate ==
    /\ resp = NoResponse
    /\ \E key \in Keys, kind \in Kinds :
        LET user == Authenticate(key)
            R(payload, status, data) == Response("attr_create", user, kind, 0, NoQuery,
                                                 payload, status, data)
        IN  IF ~IsAuthenticated(user)
            THEN /\ resp' = R(NoData, HTTP_401_UNAUTHORIZED, NoData)
                 /\ UNCHANGED attrs
            ELSE \E name \in AttrNames, owner \in PayloadUsers :
                 LET payload == [name |-> name, user |-> owner]
                 IN  IF name = ""
                     THEN /\ resp' = R([user |-> owner], HTTP_400_BAD_REQUEST,
                                       [errors |-> {"name"}])
                          /\ UNCHANGED attrs
                     ELSE /\ Created < MaxEntities
                          /\ attrs' = [attrs EXCEPT ![kind] = Append(@,
                                 BaseRecipeAttrViewSet_perform_create(payload, user))]
                          /\ resp' = R([user |-> owner], HTTP_201_CREATED,
                                       [id |-> Len(attrs[kind]) + 1, name |-> name])
    /\ UNCHANGED <<users, tokens, recipes, nextRecipe>>

(* ------------------------------ recipes ------------------------------- *)

\* int() on the digit strings; int() of anything else raises ValueError.
IntOf == ("1" :> 1) @@ ("2" :> 2) @@ ("3" :> 3)

\* A query parameter: absent (query_params.get gives None), or its text, held as
\* the pieces between its commas (no pieces: the empty text).
Param(parts) == [given |-> TRUE, parts |-> parts]

NoParam == [given |-> FALSE, parts |-> <<>>]

\* Python's truth of the parameter: None and '' are false.
Truthy(param) == param.given /\ param.parts # <<>>

\* RecipeViewSet._params_to_ints
_params_to_ints(qs) == [i \in DOMAIN qs.parts |-> IntOf[qs.parts[i]]]

\* Whether _params_to_ints raises ValueError on the parameter.
RaisesValueError(qs) == \E i \in DOMAIN qs.parts : qs.parts[i] \notin DOMAIN IntOf

\* Whether RecipeViewSet.get_queryset raises.
QuerysetRaises(q) ==
    \/ Truthy(q.tags) /\ RaisesValueError(q.tags)
    \/ Truthy(q.ingredients) /\ RaisesValueError(q.ingredients)

\* The rows one recipe has after filter(<kind>__id__in=ids): the join with the
\* many-to-many table gives one row for each of its attributes among ids; the
\* unfiltered queryset has the recipe once (attribute 0).
JoinRows(recipe, kind, param) ==
    IF Truthy(param)
    THEN RecipeAttrs(recipe, kind) \cap Range(_params_to_ints(param))
    ELSE {0}

\* A get_queryset without the closing filter(user=self.request.user).
RecipeQuerysetMutant(user, q) ==
    {row \in RecipeIds \X (0 .. MaxEntities) \X (0 .. MaxEntities) :
        /\ row[2] \in JoinRows(recipes[row[1]], "tag", q.tags)
        /\ row[3] \in JoinRows(recipes[row[1]], "ingredient", q.ingredients)}

\* RecipeViewSet.get_queryset, when it does not raise: its rows
\* <<recipe, tag joined, ingredient joined>>.
RecipeQueryset(user, q) ==
    {row \in RecipeIds \X (0 .. MaxEntities) \X (0 .. MaxEntities) :
        /\ row[2] \in JoinRows(recipes[row[1]], "tag", q.tags)
        /\ row[3] \in JoinRows(recipes[row[1]], "ingredient", q.ingredients)
        /\ recipes[row[1]].user = user}

\* RecipeSerializer: the related objects as primary keys.
RecipeData(id, row) ==
    [id |-> id, title |-> row.title, tags |-> row.tags, ingredients |-> row.ingredients]

\* RecipeDetailSerializer: the related objects nested, each as id and name.
RecipeDetailData(id, row) ==
    [id |-> id, title |-> row.title,
     tags |-> {AttrData("tag", t) : t \in row.tags},
     ingredients |-> {AttrData("ingredient", i) : i \in row.ingredients}]

\* RecipeImageSerializer: fields ('id', 'image').
RecipeImageData(id, row) == [id |-> id, image |-> row.image]

TagParams == {NoParam, Param(<<>>), Param(<<"1">>), Param(<<"1", "2">>), Param(<<"x">>)}

IngredientParams == {NoParam, Param(<<"1">>), Param(<<"1", "x">>)}

\* GET /recipe/recipes
RecipeList ==
    /\ resp = NoResponse
    /\ \E key \in Keys :
        LET user == Authenticate(key)
            R(q, status, data) == Response("recipe_list", user, "", 0, q,
                                           NoData, status, data)
        IN  IF ~IsAuthenticated(user)
            THEN resp' = R(NoQuery, HTTP_401_UNAUTHORIZED, NoData)
            ELSE \E tags \in TagParams, ingredients \in IngredientParams :
                 LET q == [NoQuery EXCEPT !.tags = tags, !.ingredients = ingredients]
                 IN  IF QuerysetRaises(q)
                     THEN resp' = R(q, HTTP_500_INTERNAL_SERVER_ERROR, NoData)
                     ELSE \E s \in Perms(RecipeQueryset(user, q)) :
                            resp' = R(q, HTTP_200_OK,
                                      [i \in DOMAIN s |->
                                          RecipeData(s[i][1], recipes[s[i][1]])])
    /\ UNCHANGED <<users, tokens, attrs, recipes, nextRecipe>>

Titles == {"", "Soup"}

RelatedInputs == {{}, {1}, {2}, {1, 2}}

\* PrimaryKeyRelatedField(queryset=<Model>.objects.all(), many=True): a primary
\* key is valid when a row of the table has it, whoever owns the row.
RelatedErrors(kind, pks) == IF pks \subseteq AttrIds(kind) THEN {} ELSE {kind}

\* RecipeSerializer's field errors on a payload (a partial one when partial).
RecipeErrors(payload, partial) ==
    (IF "title" \in DOMAIN payload
     THEN (IF payload.title = "" THEN {"title"} ELSE {})
     ELSE (IF partial THEN {} ELSE {"title"}))
    \cup (IF "tags" \in DOMAIN payload
          THEN RelatedErrors("tag", payload.tags)
          ELSE (IF partial THEN {} ELSE {"tag"}))
    \cup (IF "ingredients" \in DOMAIN payload
          THEN RelatedErrors("ingredient", payload.ingredients)
          ELSE (IF partial THEN {} ELSE {"ingredient"}))

\* A perform_create that lets the payload name the owner.
RecipeViewSet_perform_create_Mutant(payload, user) ==
    [user |-> IF payload.user # 0 THEN payload.user ELSE user,
     title |-> payload.title, tags |-> payload.tags,
     ingredients |-> payload.ingredients, image |-> <<>>]

\* RecipeViewSet.perform_create: serializer.save(user=self.request.user); user is
\* no field of RecipeSerializer, one in the payload is dropped.
RecipeViewSet_perform_create(payload, user) ==
    [user |-> user, title |-> payload.title, tags |-> payload.tags,
     ingredients |-> payload.ingredients, image |-> <<>>]

\* POST /recipe/recipes
RecipeCreate ==
    /\ resp = NoResponse
    /\ \E key \in Keys :
        LET user == Authenticate(key)
            R(payload, status, data) == Response("recipe_create", user, "", 0, NoQuery,
                                                 payload, status, data)
        IN  IF ~IsAuthenticated(user)
            THEN /\ resp' = R(NoData, HTTP_401_UNAUTHORIZED, NoData)
                 /\ UNCHANGED <<recipes, nextRecipe>>
            ELSE \E title \in Titles, tags \in RelatedInputs,
                    ingredients \in RelatedInputs, owner \in PayloadUsers :
                 LET payload == [title |-> title, tags |-> tags,
                                 ingredients |-> ingredients, user |-> owner]
                     row == RecipeViewSet_perform_create(payload, user)
                 IN  IF RecipeErrors(payload, FALSE) # {}
                     THEN /\ resp' = R([user |-> owner], HTTP_400_BAD_REQUEST,
                                       [errors |-> RecipeErrors(payload, FALSE)])
                          /\ UNCHANGED <<recipes, nextRecipe>>
                     ELSE /\ Created < MaxEntities
                          /\ recipes' = (nextRecipe :> row) @@ recipes
                          /\ nextRecipe' = nextRecipe + 1
                          /\ resp' = R([user |-> owner], HTTP_201_CREATED,
                                       RecipeData(nextRecipe, row))
    /\ UNCHANGED <<users, tokens, attrs>>

PkInputs == 1 .. 2

DetailQueries ==
    {NoQuery,
     [NoQuery EXCEPT !.tags = Param(<<"1", "2">>)],
     [NoQuery EXCEPT !.tags = Param(<<"x">>)]}

\* GenericAPIView.get_object on RecipeViewSet.get_queryset: the status it ends
\* the request with, or 200 when it returns the recipe.  get_queryset's
\* ValueError and get()'s MultipleObjectsReturned are not handled: 500.
get_object(user, pk, q) ==
    IF QuerysetRaises(q) THEN HTTP_500_INTERNAL_SERVER_ERROR
    ELSE LET rows == {row \in RecipeQueryset(user, q) : row[1] = pk}
         IN  IF rows = {} THEN HTTP_404_NOT_FOUND
             ELSE IF Cardinality(rows) > 1 THEN HTTP_500_INTERNAL_SERVER_ERROR
             ELSE HTTP_200_OK

\* GET /recipe/recipes/{pk}
RecipeRetrieve ==
    /\ resp = NoResponse
    /\ \E key \in Keys :
        LET user == Authenticate(key)
            R(pk, q, status, data) == Response("recipe_retrieve", user, "", pk, q,
                                               NoData, status, data)
        IN  IF ~IsAuthenticated(user)
            THEN resp' = R(0, NoQuery, HTTP_401_UNAUTHORIZED, NoData)
            ELSE \E pk \in PkInputs, q \in DetailQueries :
                 IF get_object(user, pk, q) # HTTP_200_OK
                 THEN resp' = R(pk, q, get_object(user, pk, q), NoData)
                 ELSE resp' = R(pk, q, HTTP_200_OK, RecipeDetailData(pk, recipes[pk]))
    /\ UNCHANGED <<users, tokens, attrs, recipes, nextRecipe>>

PutPayloads ==
    {[title |-> t, tags |-> ts, ingredients |-> is] :
        t \in Titles, ts \in RelatedInputs, is \in {{}, {1}}}

PatchPayloads ==
    {[title |-> t] : t \in Titles}
    \cup {[tags |-> ts] : ts \in RelatedInputs}
    \cup {[ingredients |-> is] : is \in {{}, {1}}}

\* serializer.save() of an update: the payload's fields replace the row's, its
\* owner and image stay.
perform_update(row, payload) ==
    [user |-> row.user,
     title |-> IF "title" \in DOMAIN payload THEN payload.title ELSE row.title,
     tags |-> IF "tags" \in DOMAIN payload THEN payload.tags ELSE row.tags,
     ingredients |-> IF "ingredients" \in DOMAIN payload
                     THEN payload.ingredients ELSE row.ingredients,
     image |-> row.image]

\* PUT, PATCH /recipe/recipes/{pk}
RecipeUpdate ==
    /\ resp = NoResponse
    /\ \E key \in Keys :
        LET user == Authenticate(key)
            R(op, pk, q, payload, status, data) ==
                Response(op, user, "", pk, q, payload, status, data)
        IN  IF ~IsAuthenticated(user)
            THEN /\ resp' = R("recipe_update", 0, NoQuery, NoData,
                              HTTP_401_UNAUTHORIZED, NoData)
                 /\ UNCHANGED recipes
            ELSE \E pk \in PkInputs, q \in DetailQueries, partial \in BOOLEAN :
                 \E payload \in IF partial THEN PatchPayloads ELSE PutPayloads :
                 LET op == IF partial THEN "recipe_partial_update" ELSE "recipe_update"
                 IN  IF get_object(user, pk, q) # HTTP_200_OK
                     THEN /\ resp' = R(op, pk, q, NoData, get_object(user, pk, q), NoData)
                          /\ UNCHANGED recipes
                     ELSE IF RecipeErrors(payload, partial) # {}
                     THEN /\ resp' = R(op, pk, q, NoData, HTTP_400_BAD_REQUEST,
                                       [errors |-> RecipeErrors(payload, partial)])
                          /\ UNCHANGED recipes
                     ELSE /\ recipes' = [recipes EXCEPT
                                            ![pk] = perform_update(@, payload)]
                          /\ resp' = R(op, pk, q, NoData, HTTP_200_OK,
                                       RecipeData(pk, perform_update(recipes[pk], payload)))
    /\ UNCHANGED <<users, tokens, attrs, nextRecipe>>

\* DELETE /recipe/recipes/{pk}
RecipeDestroy ==
    /\ resp = NoResponse
    /\ \E key \in Keys :
        LET user == Authenticate(key)
            R(pk, q, status, data) == Response("recipe_destroy", user, "", pk, q,
                                               NoData, status, data)
        IN  IF ~IsAuthenticated(user)
            THEN /\ resp' = R(0, NoQuery, HTTP_401_UNAUTHORIZED, NoData)
                 /\ UNCHANGED recipes
            ELSE \E pk \in PkInputs, q \in DetailQueries :
                 IF get_object(user, pk, q) # HTTP_200_OK
                 THEN /\ resp' = R(pk, q, get_object(user, pk, q), NoData)
                      /\ UNCHANGED recipes
                 ELSE /\ recipes' = [id \in RecipeIds \ {pk} |-> recipes[id]]
                      /\ resp' = R(pk, q, HTTP_204_NO_CONTENT, NoData)
    /\ UNCHANGED <<users, tokens, attrs, nextRecipe>>

\* The files a request may upload, each a name (stem, extension) and whether its
\* content decodes as an image.
Uploads == { [name |-> <<"myimage", "jpg">>, image |-> TRUE],
             [name |-> <<"notimage", "txt">>, image |-> FALSE] }

\* recipe_image_file_path: uploads/recipe/<uuid>.<the file name's extension>;
\* the uuid stands for the one uuid4() draws.
recipe_image_file_path(filename) == <<"uploads/recipe", "uuid", filename[Len(filename)]>>

\* POST, GET /recipe/recipes/{pk}/image
RecipeImage ==
    /\ resp = NoResponse
    /\ \E key \in Keys :
        LET user == Authenticate(key)
            R(op, pk, q, payload, status, data) ==
                Response(op, user, "", pk, q, payload, status, data)
        IN  IF ~IsAuthenticated(user)
            THEN /\ resp' = R("recipe_image", 0, NoQuery, NoData,
                              HTTP_401_UNAUTHORIZED, NoData)
                 /\ UNCHANGED recipes
            ELSE \E pk \in PkInputs, q \in DetailQueries, method \in {"POST", "GET"} :
                 IF get_object(user, pk, q) # HTTP_200_OK
                 THEN /\ resp' = R(IF method = "POST" THEN "recipe_image_post"
                                   ELSE "recipe_image_get",
                                   pk, q, NoData, get_object(user, pk, q), NoData)
                      /\ UNCHANGED recipes
                 ELSE IF method = "GET"
                 THEN /\ resp' = R("recipe_image_get", pk, q, NoData, HTTP_200_OK,
                                   RecipeImageData(pk, recipes[pk]))
                      /\ UNCHANGED recipes
                 ELSE \E upload \in Uploads :
                      IF ~upload.image
                      THEN /\ resp' = R("recipe_image_post", pk, q, NoData,
                                        HTTP_400_BAD_REQUEST, [errors |-> {"image"}])
                           /\ UNCHANGED recipes
                      ELSE /\ recipes' = [recipes EXCEPT
                                    ![pk].image = recipe_image_file_path(upload.name)]
                           /\ resp' = R("recipe_image_post", pk, q, NoData,
                                        HTTP_200_OK,
                                        [id |-> pk,
                                         image |-> recipe_image_file_path(upload.name)])
    /\ UNCHANGED <<users, tokens, attrs, nextRecipe>>

\* The client takes the response; its next request follows.
ReceiveResponse ==
    /\ resp # NoResponse
    /\ resp' = NoResponse
    /\ UNCHANGED <<users, tokens, attrs, recipes, nextRecipe>>

(* --------------------------- specifications --------------------------- *)

EmptyStore ==
    /\ attrs = [kind \in Kinds |-> <<>>]
    /\ recipes = <<>>
    /\ nextRecipe = 1
    /\ resp = NoResponse

\* The user endpoints, from the empty database.
InitUser ==
    /\ users = <<>>
    /\ tokens = {}
    /\ EmptyStore

NextUser ==
    \/ CreateUser
    \/ GenerateToken
    \/ ManageUser(MePayloads)
    \/ ReceiveResponse

SpecUser == InitUser /\ [][NextUser]_vars

\* The private endpoints, from a database where two users have registered and
\* logged in (a state SpecUser reaches) and nothing else is stored.
Init ==
    /\ users = << [email |-> <<"a", "@", "x">>,
                   password |-> make_password("testpass123"), name |-> "ann"],
                  [email |-> <<"b", "@", "x">>,
                   password |-> make_password("testpass123"), name |-> "ann"] >>
    /\ tokens = {1, 2}
    /\ EmptyStore

Next ==
    \/ ManageUser(MePayloadsPrivate)
    \/ AttrList
    \/ AttrCreate
    \/ RecipeList
    \/ RecipeCreate
    \/ RecipeRetrieve
    \/ RecipeUpdate
    \/ RecipeDestroy
    \/ RecipeImage
    \/ ReceiveResponse

Spec == Init /\ [][Next]_vars

(* ------------------------------- claims ------------------------------- *)

Store == <<users, tokens, attrs, recipes, nextRecipe>>

Ids(data) == {data[i].id : i \in DOMAIN data}

OwnedAttrs(kind, user) == {a \in AttrIds(kind) : attrs[kind][a].user = user}

\* C1: an entity created by one user is never returned, in whole or as a nested
\* object, by a list or a retrieve request of another user.
C1_NeverReturnedToAnotherUser ==
    (resp.status = HTTP_200_OK) =>
        CASE resp.op = "attr_list" ->
                Ids(resp.data) \subseteq OwnedAttrs(resp.kind, resp.user)
          [] resp.op = "recipe_list" ->
                \A id \in Ids(resp.data) : recipes[id].user = resp.user
          [] resp.op = "recipe_retrieve" ->
                /\ recipes[resp.data.id].user = resp.user
                /\ \A t \in resp.data.tags : t.id \in OwnedAttrs("tag", resp.user)
                /\ \A i \in resp.data.ingredients :
                        i.id \in OwnedAttrs("ingredient", resp.user)
          [] OTHER -> TRUE

\* C2: a list of tags or ingredients with assigned_only=1 returns exactly the
\* user's tags/ingredients that are on at least one recipe the user owns.
C2_AssignedOnlyExact ==
    (resp.op = "attr_list" /\ resp.status = HTTP_200_OK /\ resp.q.assigned_only) =>
        Ids(resp.data) =
            {a \in OwnedAttrs(resp.kind, resp.user) :
                \E r \in RecipeIds :
                    /\ recipes[r].user = resp.user
                    /\ a \in RecipeAttrs(recipes[r], resp.kind)}

\* A parameter that is an id list: digits between the commas, at least one.
IsIdList(param) ==
    /\ param.given
    /\ param.parts # <<>>
    /\ \A i \in DOMAIN param.parts : param.parts[i] \in {"1", "2", "3"}

IdsOf(param) ==
    {n \in 1 .. 3 : \E i \in DOMAIN param.parts :
        param.parts[i] = (CASE n = 1 -> "1" [] n = 2 -> "2" [] n = 3 -> "3")}

\* What the parameter asks of a recipe's tags or ingredients.
Matches(related, param) ==
    IsIdList(param) => related \cap IdsOf(param) # {}

\* C3: a recipe list with a tags id list and/or an ingredients id list returns
\* exactly the requesting user's recipes that have at least one of the tags
\* (when tags is given) and at least one of the ingredients (when ingredients is
\* given); with neither parameter, all of the user's recipes.
C3_RecipeListFilter ==
    (/\ resp.op = "recipe_list"
     /\ resp.user # Anonymous
     /\ \A param \in {resp.q.tags, resp.q.ingredients} :
            IsIdList(param) \/ ~param.given) =>
        /\ resp.status = HTTP_200_OK
        /\ Ids(resp.data) =
            {r \in RecipeIds :
                /\ recipes[r].user = resp.user
                /\ Matches(recipes[r].tags, resp.q.tags)
                /\ Matches(recipes[r].ingredients, resp.q.ingredients)}

\* C3's case: both filters given, tags with two ids of which the recipe returned
\* has one, and the ingredient asked for.
C3_Witness ==
    /\ resp.op = "recipe_list"
    /\ resp.status = HTTP_200_OK
    /\ resp.q.tags = Param(<<"1", "2">>)
    /\ resp.q.ingredients = Param(<<"1">>)
    /\ Len(resp.data) = 1
    /\ resp.data[1].tags = {1}
    /\ resp.data[1].ingredients = {1}

\* C4: a successful create of a tag, an ingredient or a recipe persists exactly
\* one new entity, owned by the requesting user whatever owner the payload names,
\* and changes nothing else.
C4_CreateOwnedByRequestUser ==
    [][ (resp'.status = HTTP_201_CREATED) =>
            CASE resp'.op = "attr_create" ->
                    /\ resp'.user # Anonymous
                    /\ Len(attrs'[resp'.kind]) = Len(attrs[resp'.kind]) + 1
                    /\ SubSeq(attrs'[resp'.kind], 1, Len(attrs[resp'.kind]))
                            = attrs[resp'.kind]
                    /\ attrs'[resp'.kind][Len(attrs'[resp'.kind])].user = resp'.user
                    /\ \A kind \in Kinds \ {resp'.kind} : attrs'[kind] = attrs[kind]
                    /\ recipes' = recipes
              [] resp'.op = "recipe_create" ->
                    /\ resp'.user # Anonymous
                    /\ Cardinality(DOMAIN recipes' \ DOMAIN recipes) = 1
                    /\ \A id \in DOMAIN recipes : id \in DOMAIN recipes'
                                                  /\ recipes'[id] = recipes[id]
                    /\ \A id \in DOMAIN recipes' \ DOMAIN recipes :
                            recipes'[id].user = resp'.user
                    /\ attrs' = attrs
              [] OTHER -> TRUE ]_vars

\* C4's case: a create succeeded whose payload named another user as the owner.
C4_Witness ==
    /\ resp.op \in {"attr_create", "recipe_create"}
    /\ resp.status = HTTP_201_CREATED
    /\ resp.payload.user \notin {0, resp.user}

PublicOps == {"none", "user_create", "token"}

\* C5: a request without a valid token to a private endpoint (tags, ingredients,
\* recipes, recipe image, user/me) is answered 401 with no entity data and leaves
\* the store unchanged.
C5_UnauthenticatedRejected ==
    [][ (resp'.op \notin PublicOps /\ resp'.user = Anonymous) =>
            /\ resp'.status = HTTP_401_UNAUTHORIZED
            /\ resp'.data = NoData
            /\ Store' = Store ]_vars

\* C5's case: an unauthenticated request was answered while the store held a recipe.
C5_Witness ==
    /\ resp.op = "recipe_image"
    /\ resp.user = Anonymous
    /\ resp.status = HTTP_401_UNAUTHORIZED
    /\ RecipeIds # {}
    /\ Len(attrs["tag"]) > 0

\* The users whose stored email and password are those of a token request.
Matching(payload) ==
    {u \in UserIds : /\ users[u].email = payload.email
                     /\ users[u].password = <<"pbkdf2", payload.password>>}

\* C6: a token request returns 200 with a token if and only if the email is an
\* existing user's and the password is that user's; a wrong password, an unknown
\* email or an empty field gives 400 and no token.
C6_TokenIffCredentialsMatch ==
    (resp.op = "token") =>
        IF Matching(resp.payload) # {} /\ resp.payload.email # <<>>
                                       /\ resp.payload.password # ""
        THEN /\ resp.status = HTTP_200_OK
             /\ "token" \in DOMAIN resp.data
             /\ resp.data.token \in Matching(resp.payload)
        ELSE /\ resp.status = HTTP_400_BAD_REQUEST
             /\ "token" \notin DOMAIN resp.data

\* C6's case: a token request with an existing user's email and a wrong password.
C6_Witness ==
    /\ resp.op = "token"
    /\ resp.status = HTTP_400_BAD_REQUEST
    /\ resp.payload.password # ""
    /\ \E u \in UserIds : users[u].email = resp.payload.email
    /\ tokens # {}

UniqueEmails(table) ==
    \A u, v \in DOMAIN table : table[u].email = table[v].email => u = v

\* C7: a create-user request whose email is already registered or whose password
\* is shorter than 5 characters returns 400 and leaves the user table unchanged;
\* no two users ever share an email.
C7_RejectedCreateUser ==
    [][ /\ (/\ resp'.op = "user_create"
            /\ \/ \E u \in UserIds : users[u].email = resp'.payload.email
               \/ Len(resp'.payload.password) < 5) =>
                /\ resp'.status = HTTP_400_BAD_REQUEST
                /\ users' = users
        /\ (resp'.op = "user_create" /\ resp'.status = HTTP_400_BAD_REQUEST) =>
                users' = users
        /\ UniqueEmails(users') ]_vars

\* C7's case: a create-user request for a registered email, with a valid
\* password, was rejected.
C7_Witness ==
    /\ resp.op = "user_create"
    /\ resp.status = HTTP_400_BAD_REQUEST
    /\ Len(resp.payload.password) >= 5
    /\ \E u \in UserIds : users[u].email = resp.payload.email

DetailOps == {"recipe_retrieve", "recipe_update", "recipe_partial_update",
              "recipe_destroy", "recipe_image_post", "recipe_image_get"}

\* C8: a retrieve, update, delete or image request of a user for a recipe id
\* that does not exist or is another user's fails with 404 and leaves every
\* stored entity unchanged.
C8_ForeignRecipeNotFound ==
    [][ (/\ resp'.op \in DetailOps
         /\ resp'.user # Anonymous
         /\ \/ resp'.pk \notin RecipeIds
            \/ recipes[resp'.pk].user # resp'.user) =>
            /\ resp'.status = HTTP_404_NOT_FOUND
            /\ Store' = Store ]_vars

\* C9: every tag and ingredient on a recipe is owned by the recipe's owner.
C9_RelatedOwnedByRecipeOwner ==
    \A r \in RecipeIds, kind \in Kinds :
        RecipeAttrs(recipes[r], kind) \subseteq OwnedAttrs(kind, recipes[r].user)

\* C10: a list response has each entity at most once.
C10_ListWithoutDuplicates ==
    (resp.op \in {"attr_list", "recipe_list"} /\ resp.status = HTTP_200_OK) =>
        \A i, j \in DOMAIN resp.data :
            resp.data[i].id = resp.data[j].id => i = j

====
